---- MODULE Spec2Model ----
(***************************************************************************)
(* Model of the storage layer of the competition / ticket-sales            *)
(* application (server/storage.ts, shared/schema.ts).                      *)
(*                                                                         *)
(* The storage interface IStorage has two implementations, MemStorage      *)
(* (maps held in process memory) and DatabaseStorage (rows in a relational *)
(* database).  The variable backend records which of the two the process   *)
(* runs; the maps / tables are the remaining variables.                    *)
(*                                                                         *)
(* MemStorage methods are async functions: the code between two awaits     *)
(* runs without interruption, and other calls may run at an await.         *)
(* MemStorage.createEntry has its state-changing code on both sides of an  *)
(* await, so it is modelled by two steps with the values it holds across   *)
(* the await kept in inflight.  DatabaseStorage.createEntry runs inside a  *)
(* database transaction and is one step.                                   *)
(*                                                                         *)
(* The demo competitions MemStorage seeds in its constructor are created   *)
(* through createCompetition and can all be deleted again; Init is the     *)
(* state with the admin account and no competition, with the ids counted   *)
(* from there (for DatabaseStorage that is the state after seedAdminUser   *)
(* on an empty database).  deleteUser and deleteCompetition are taken as   *)
(* one step each.                                                          *)
(***************************************************************************)
EXTENDS Integers, Sequences, FiniteSets, TLC

\* ---------------------------------------------------------------- bounds
MaxUsers == 2
MaxCompetitions == 1
MaxEntries == 2
MaxTicketNumber == 1
MaxSelLen == 2
MaxWinners == 1
MaxSiteConfigs == 2

\* ---------------------------------------------------------------- inputs
NULL == "null"

UserIds == 1..MaxUsers
CompetitionIds == 1..MaxCompetitions
EntryIds == 1..MaxEntries
TicketNumbers == 1..MaxTicketNumber

Usernames == {"bob"}
TotalTicketsChoices == {3}
MaxTicketsPerUserChoices == {2}
TicketCounts == {1, 2}
TicketsSoldPatches == {0}
PaymentStatuses == {"pending", "completed", "failed"}
\* Callers create entries pending and without a payment id.
CreateStatuses == {"pending"}
PaymentIds == {"pi_1"}

SelectedNumbersChoices ==
    UNION {[1..n -> TicketNumbers] : n \in 0..MaxSelLen}

\* InsertCompetition: the fields of a competition a caller supplies.
InsertCompetition ==
    [totalTickets : TotalTicketsChoices,
     maxTicketsPerUser : MaxTicketsPerUserChoices,
     isLive : BOOLEAN]

\* Partial<Competition>: the patches updateCompetition is called with.
CompetitionPatches ==
    [isLive : BOOLEAN] \cup [ticketsSold : TicketsSoldPatches]

\* InsertEntry: the fields of an entry a caller supplies.
InsertEntry ==
    [userId : UserIds,
     competitionId : CompetitionIds,
     ticketCount : TicketCounts,
     selectedNumbers : SelectedNumbersChoices,
     paymentStatus : CreateStatuses,
     stripePaymentId : {NULL}]

\* ----------------------------------------------------------------- state
VARIABLES
    backend,              \* "mem" (MemStorage) or "db" (DatabaseStorage)
    users,                \* id -> User
    competitions,         \* id -> Competition
    entries,              \* id -> Entry
    userCurrentId,        \* next user id
    competitionCurrentId, \* next competition id
    entryCurrentId,       \* next entry id
    inflight,             \* MemStorage.createEntry calls suspended at an await
    winners,              \* id -> Winner
    winnerCurrentId,      \* next winner id
    siteConfig,           \* id -> SiteConfig
    siteConfigCurrentId,  \* next site configuration id
    sessions              \* ids of the users logged in to the Docker server

winnerVars == <<winners, winnerCurrentId>>

siteVars == <<siteConfig, siteConfigCurrentId, sessions>>

vars == <<backend, users, competitions, entries, userCurrentId,
          competitionCurrentId, entryCurrentId, inflight, winnerVars,
          siteVars>>

\* The ticket ledger (described further down).
VARIABLES
    ledger,        \* [tickets: number -> TicketStatus row, ticketsSold]
    ledgerEntries, \* id -> [numbers, paymentStatus, reason]
    alloc,         \* allocation request -> [pc, count, sel, attempts]
    now            \* the clock

ledgerVars == <<ledger, ledgerEntries, alloc, now>>

allVars == <<vars, ledgerVars>>

\* ------------------------------------------------------------- map helpers
\* Map.set(id, value) / INSERT of a row
MapSet(m, id, value) ==
    [i \in DOMAIN m \cup {id} |-> IF i = id THEN value ELSE m[i]]

\* Map.delete(id) for every id of ids / DELETE of rows
MapDelete(m, ids) ==
    [i \in DOMAIN m \ ids |-> m[i]]

\* { ...obj, ...patch }
Spread(obj, patch) ==
    [f \in DOMAIN obj |-> IF f \in DOMAIN patch THEN patch[f] ELSE obj[f]]

RECURSIVE SumOver(_, _)
SumOver(S, f) ==
    IF S = {} THEN 0
    ELSE LET x == CHOOSE y \in S : TRUE IN f[x] + SumOver(S \ {x}, f)

Range(s) == {s[i] : i \in DOMAIN s}

\* The configuration seedDefaultSiteConfig stores when DatabaseStorage
\* starts on a database without one.
DefaultSiteConfig ==
    MapSet(<<>>, 1, [key |-> "siteLogo", value |-> "",
                     description |-> "Custom site logo image URL"])

Init ==
    /\ backend \in {"mem", "db"}
    /\ users = MapSet(<<>>, 1, [username |-> "admin", isAdmin |-> TRUE])
    /\ competitions = <<>>
    /\ entries = <<>>
    /\ userCurrentId = 2
    /\ competitionCurrentId = 1
    /\ entryCurrentId = 1
    /\ inflight = {}
    /\ winners = <<>>
    /\ winnerCurrentId = 1
    /\ siteConfig = IF backend = "db" THEN DefaultSiteConfig ELSE <<>>
    /\ siteConfigCurrentId = IF backend = "db" THEN 2 ELSE 1
    /\ sessions = {}


\* ------------------------------------------------------------------ users
\* createUser: the new record gets the next id and isAdmin = false.
createUser(us, id, username) ==
    MapSet(us, id, [username |-> username, isAdmin |-> FALSE])

CreateUser(username) ==
    /\ userCurrentId <= MaxUsers
    /\ users' = createUser(users, userCurrentId, username)
    /\ userCurrentId' = userCurrentId + 1
    /\ UNCHANGED <<backend, competitions, entries, competitionCurrentId,
                   entryCurrentId, inflight>>
    /\ UNCHANGED <<winnerVars, siteVars, ledgerVars>>

\* The usernames getUserByUsername is called with, and String.toLowerCase
\* on them.
LookupNames == {"admin", "bob", "Bob"}

toLowerCase(str) == IF str = "Bob" THEN "bob" ELSE str

\* MemStorage.getUserByUsername: the first user, in insertion order, whose
\* username equals the given one when both are lower-cased; the result is
\* the set holding that user's id, or the empty set for undefined.
MemStorage_getUserByUsername(us, username) ==
    LET found == {id \in DOMAIN us :
                     toLowerCase(us[id].username) = toLowerCase(username)}
    IN  {id \in found : \A other \in found : id <= other}

\* DatabaseStorage.getUserByUsername: WHERE username = $1 LIMIT 1.  The
\* rows that may come back, any one of those that match.
DatabaseStorage_getUserByUsername(us, username) ==
    {id \in DOMAIN us : us[id].username = username}

\* getEntries(userId)
getEntries(es, userId) ==
    {e \in DOMAIN es : es[e].userId = userId}

\* getWinners(userId)
getWinners(ws, userId) ==
    {w \in DOMAIN ws : ws[w].userId = userId}

\* MemStorage.deleteUser: an unknown id returns false before anything is
\* deleted; otherwise the user's entries, the user's winners and the user
\* are deleted.  The competitions map is not touched.
MemStorage_deleteUser_winners(us, ws, id) ==
    IF id \notin DOMAIN us THEN ws ELSE MapDelete(ws, getWinners(ws, id))

MemStorage_deleteUser_entries(us, es, id) ==
    IF id \notin DOMAIN us THEN es ELSE MapDelete(es, getEntries(es, id))

MemStorage_deleteUser_users(us, id) ==
    MapDelete(us, {id})

MemStorage_deleteUser_result(us, id) ==
    id \in DOMAIN us

\* DatabaseStorage.deleteUser: deletes the entries and the winners whose
\* user_id is id whether or not the user row exists, then the user row;
\* true when a user row was deleted.  The competitions table is not touched.
DatabaseStorage_deleteUser_winners(us, ws, id) ==
    MapDelete(ws, getWinners(ws, id))

DatabaseStorage_deleteUser_entries(us, es, id) ==
    MapDelete(es, getEntries(es, id))

DatabaseStorage_deleteUser_users(us, id) ==
    MapDelete(us, {id})

DatabaseStorage_deleteUser_result(us, id) ==
    id \in DOMAIN us

DeleteUser(id) ==
    /\ entries' = IF backend = "mem"
                  THEN MemStorage_deleteUser_entries(users, entries, id)
                  ELSE DatabaseStorage_deleteUser_entries(users, entries, id)
    /\ users' = IF backend = "mem"
                THEN MemStorage_deleteUser_users(users, id)
                ELSE DatabaseStorage_deleteUser_users(users, id)
    /\ winners' = IF backend = "mem"
                  THEN MemStorage_deleteUser_winners(users, winners, id)
                  ELSE DatabaseStorage_deleteUser_winners(users, winners, id)
    /\ UNCHANGED <<backend, competitions, userCurrentId,
                   competitionCurrentId, entryCurrentId, inflight>>
    /\ UNCHANGED <<winnerCurrentId, siteVars, ledgerVars>>

\* ----------------------------------------------------------- competitions
\* createCompetition: the new record gets the next id and ticketsSold = 0.
createCompetition(cs, id, data) ==
    MapSet(cs, id, [totalTickets |-> data.totalTickets,
                    maxTicketsPerUser |-> data.maxTicketsPerUser,
                    isLive |-> data.isLive,
                    ticketsSold |-> 0])

CreateCompetition(data) ==
    /\ competitionCurrentId <= MaxCompetitions
    /\ competitions' = createCompetition(competitions, competitionCurrentId, data)
    /\ competitionCurrentId' = competitionCurrentId + 1
    /\ UNCHANGED <<backend, users, entries, userCurrentId, entryCurrentId,
                   inflight>>
    /\ UNCHANGED <<winnerVars, siteVars, ledgerVars>>

\* updateCompetition: an unknown id changes nothing; otherwise the fields of
\* the patch overwrite those of the stored record.
updateCompetition(cs, id, data) ==
    IF id \notin DOMAIN cs THEN cs
    ELSE [cs EXCEPT ![id] = Spread(cs[id], data)]

UpdateCompetition(id, data) ==
    /\ competitions' = updateCompetition(competitions, id, data)
    /\ UNCHANGED <<backend, users, entries, userCurrentId,
                   competitionCurrentId, entryCurrentId, inflight>>
    /\ UNCHANGED <<winnerVars, siteVars, ledgerVars>>

\* getEntriesByCompetition(competitionId)
getEntriesByCompetition(es, competitionId) ==
    {e \in DOMAIN es : es[e].competitionId = competitionId}

\* MemStorage.deleteCompetition: refuses while an entry references it.
MemStorage_deleteCompetition(cs, es, id) ==
    IF id \notin DOMAIN cs THEN cs
    ELSE IF getEntriesByCompetition(es, id) # {} THEN cs
    ELSE MapDelete(cs, {id})

\* DatabaseStorage.deleteCompetition: deletes the row, entries or not.
DatabaseStorage_deleteCompetition(cs, es, id) ==
    IF id \notin DOMAIN cs THEN cs
    ELSE MapDelete(cs, {id})

DeleteCompetition(id) ==
    /\ competitions' = IF backend = "mem"
                       THEN MemStorage_deleteCompetition(competitions, entries, id)
                       ELSE DatabaseStorage_deleteCompetition(competitions, entries, id)
    /\ UNCHANGED <<backend, users, entries, userCurrentId,
                   competitionCurrentId, entryCurrentId, inflight>>
    /\ UNCHANGED <<winnerVars, siteVars, ledgerVars>>


\* ---------------------------------------------------------------- entries
\* The Entry record stored for entryData: { ...entryData, id, createdAt }.
\* The fields are the caller's, unchecked.
NewEntry(entryData) ==
    [userId |-> entryData.userId,
     competitionId |-> entryData.competitionId,
     ticketCount |-> entryData.ticketCount,
     selectedNumbers |-> entryData.selectedNumbers,
     paymentStatus |-> entryData.paymentStatus,
     stripePaymentId |-> entryData.stripePaymentId]

\* MemStorage.createEntry up to its first await: the entry is stored and
\* getCompetition has read the competition record, which the call holds
\* while it is suspended.
MemStorage_createEntry_insert(es, id, entryData) ==
    MapSet(es, id, NewEntry(entryData))

MemStorage_createEntry_read(cs, id, entryData) ==
    IF entryData.competitionId \in DOMAIN cs
    THEN {[entryId |-> id,
           competitionId |-> entryData.competitionId,
           ticketsSold |-> cs[entryData.competitionId].ticketsSold,
           ticketCount |-> entryData.ticketCount]}
    ELSE {}

\* MemStorage.createEntry after the await: updateCompetition writes the
\* ticketsSold read before the await plus ticketCount.
MemStorage_createEntry_write(cs, call) ==
    updateCompetition(cs, call.competitionId,
                      [ticketsSold |-> call.ticketsSold + call.ticketCount])

MemCreateEntryBegin(entryData) ==
    /\ backend = "mem"
    /\ entryCurrentId <= MaxEntries
    /\ entries' = MemStorage_createEntry_insert(entries, entryCurrentId, entryData)
    /\ inflight' = inflight \cup
                   MemStorage_createEntry_read(competitions, entryCurrentId, entryData)
    /\ entryCurrentId' = entryCurrentId + 1
    /\ UNCHANGED <<backend, users, competitions, userCurrentId,
                   competitionCurrentId>>
    /\ UNCHANGED <<winnerVars, siteVars, ledgerVars>>

MemCreateEntryFinish(call) ==
    /\ backend = "mem"
    /\ call \in inflight
    /\ competitions' = MemStorage_createEntry_write(competitions, call)
    /\ inflight' = inflight \ {call}
    /\ UNCHANGED <<backend, users, entries, userCurrentId,
                   competitionCurrentId, entryCurrentId>>
    /\ UNCHANGED <<winnerVars, siteVars, ledgerVars>>

\* DatabaseStorage.createEntry: one transaction inserts the entry and runs
\* UPDATE competitions SET tickets_sold = tickets_sold + ticketCount
\* WHERE id = competitionId (no row, no update).
DatabaseStorage_createEntry_insert(es, id, entryData) ==
    MapSet(es, id, NewEntry(entryData))

DatabaseStorage_createEntry_update(cs, entryData) ==
    IF entryData.competitionId \notin DOMAIN cs THEN cs
    ELSE [cs EXCEPT ![entryData.competitionId].ticketsSold =
                        @ + entryData.ticketCount]

DbCreateEntry(entryData) ==
    /\ backend = "db"
    /\ entryCurrentId <= MaxEntries
    /\ entries' = DatabaseStorage_createEntry_insert(entries, entryCurrentId, entryData)
    /\ competitions' = DatabaseStorage_createEntry_update(competitions, entryData)
    /\ entryCurrentId' = entryCurrentId + 1
    /\ UNCHANGED <<backend, users, userCurrentId, competitionCurrentId,
                   inflight>>
    /\ UNCHANGED <<winnerVars, siteVars, ledgerVars>>

\* MemStorage.updateEntryPaymentStatus with the paymentId test dropped:
\* stripePaymentId is overwritten even when no paymentId is given.
MemStorage_updateEntryPaymentStatus_noTest(es, id, status, paymentId) ==
    IF id \notin DOMAIN es THEN es
    ELSE [es EXCEPT ![id] =
            [@ EXCEPT !.paymentStatus = status,
                      !.stripePaymentId = paymentId]]

\* MemStorage.updateEntryPaymentStatus: an unknown id changes nothing;
\* otherwise paymentStatus is overwritten with status, and stripePaymentId
\* with paymentId when one is given.
MemStorage_updateEntryPaymentStatus(es, id, status, paymentId) ==
    IF id \notin DOMAIN es THEN es
    ELSE [es EXCEPT ![id] =
            [@ EXCEPT !.paymentStatus = status,
                      !.stripePaymentId =
                          IF paymentId # NULL THEN paymentId ELSE @]]

\* DatabaseStorage.updateEntryPaymentStatus: UPDATE entries SET
\* payment_status = status [, stripe_payment_id = paymentId] WHERE id = id.
DatabaseStorage_updateEntryPaymentStatus(es, id, status, paymentId) ==
    [e \in DOMAIN es |->
        IF e # id THEN es[e]
        ELSE Spread(es[e],
                    IF paymentId # NULL
                    THEN [paymentStatus |-> status, stripePaymentId |-> paymentId]
                    ELSE [paymentStatus |-> status])]

updateEntryPaymentStatus(es, id, status, paymentId) ==
    IF backend = "mem"
    THEN MemStorage_updateEntryPaymentStatus(es, id, status, paymentId)
    ELSE DatabaseStorage_updateEntryPaymentStatus(es, id, status, paymentId)

UpdateEntryPaymentStatus(id, status, paymentId) ==
    /\ entries' = updateEntryPaymentStatus(entries, id, status, paymentId)
    /\ UNCHANGED <<backend, users, competitions, userCurrentId,
                   competitionCurrentId, entryCurrentId, inflight>>
    /\ UNCHANGED <<winnerVars, siteVars, ledgerVars>>

\* ---------------------------------------------------------------- winners
\* InsertWinner: the fields of a winner a caller supplies.
InsertWinner ==
    [userId : UserIds, competitionId : CompetitionIds, entryId : EntryIds]

\* The claim statuses of the schema, and "void" for any other string:
\* updateWinnerClaimStatus takes status: string.
ClaimStatuses == {"pending", "claimed", "expired"}
StatusStrings == ClaimStatuses \cup {"void"}

\* createWinner: { ...winnerData, id, announcedAt, claimStatus: 'pending' },
\* the caller's fields unchecked (the same in both backends).
createWinner(ws, id, winnerData) ==
    MapSet(ws, id, [userId |-> winnerData.userId,
                    competitionId |-> winnerData.competitionId,
                    entryId |-> winnerData.entryId,
                    claimStatus |-> "pending"])

CreateWinner(winnerData) ==
    /\ winnerCurrentId <= MaxWinners
    /\ winners' = createWinner(winners, winnerCurrentId, winnerData)
    /\ winnerCurrentId' = winnerCurrentId + 1
    /\ UNCHANGED <<backend, users, competitions, entries, userCurrentId,
                   competitionCurrentId, entryCurrentId, inflight>>
    /\ UNCHANGED <<siteVars, ledgerVars>>

\* updateWinnerClaimStatus: an unknown id changes nothing; otherwise
\* claimStatus is overwritten with status (the same in both backends).
updateWinnerClaimStatus(ws, id, status) ==
    IF id \notin DOMAIN ws THEN ws
    ELSE [ws EXCEPT ![id].claimStatus = status]

UpdateWinnerClaimStatus(id, status) ==
    /\ winners' = updateWinnerClaimStatus(winners, id, status)
    /\ UNCHANGED <<backend, users, competitions, entries, userCurrentId,
                   competitionCurrentId, entryCurrentId, inflight>>
    /\ UNCHANGED <<winnerCurrentId, siteVars, ledgerVars>>

\* ----------------------------------------------------- site configuration
ConfigKeys == {"siteLogo", "banner"}
ConfigValues == {"", "a", "b"}
ConfigDescriptions == {NULL, "d"}

\* InsertSiteConfig: the fields of a configuration a caller supplies.
InsertSiteConfig ==
    [key : ConfigKeys, value : ConfigValues, description : ConfigDescriptions]

\* The stored configurations with the given key.
configsWithKey(configs, key) ==
    {id \in DOMAIN configs : configs[id].key = key}

\* MemStorage.getSiteConfig: the first stored configuration, in insertion
\* order, with the key; the set holding its id, or the empty set.
MemStorage_getSiteConfig(configs, key) ==
    {id \in configsWithKey(configs, key) :
        \A other \in configsWithKey(configs, key) : id <= other}

\* DatabaseStorage.getSiteConfig: WHERE key = $1 LIMIT 1; the rows that
\* may come back.
DatabaseStorage_getSiteConfig(configs, key) ==
    configsWithKey(configs, key)

\* A setSiteConfig that stores a new record on every call.
MemStorage_setSiteConfig_insertAlways(configs, nextId, config) ==
    MapSet(configs, nextId, config)

\* MemStorage.setSiteConfig: when getSiteConfig finds a configuration with
\* the key, its value and description are overwritten under its id;
\* otherwise { ...config, id } is stored under the next id.
MemStorage_setSiteConfig(configs, nextId, config) ==
    IF MemStorage_getSiteConfig(configs, config.key) # {}
    THEN LET id == CHOOSE i \in MemStorage_getSiteConfig(configs, config.key) : TRUE
         IN  [configs EXCEPT ![id] =
                 [@ EXCEPT !.value = config.value,
                           !.description = config.description]]
    ELSE MapSet(configs, nextId, config)

\* DatabaseStorage.setSiteConfig: UPDATE ... WHERE id = existingConfig.id
\* when getSiteConfig returned a row, INSERT otherwise; the tables the call
\* may leave, one for each row getSiteConfig may have returned.
DatabaseStorage_setSiteConfig(configs, nextId, config) ==
    IF DatabaseStorage_getSiteConfig(configs, config.key) # {}
    THEN {[configs EXCEPT ![id] =
              [@ EXCEPT !.value = config.value,
                        !.description = config.description]] :
            id \in DatabaseStorage_getSiteConfig(configs, config.key)}
    ELSE {MapSet(configs, nextId, config)}

\* A call of setSiteConfig, from its getSiteConfig to its write.
SetSiteConfig(config) ==
    /\ \/ configsWithKey(siteConfig, config.key) # {}
       \/ siteConfigCurrentId <= MaxSiteConfigs
    /\ siteConfig' \in
           IF backend = "mem"
           THEN {MemStorage_setSiteConfig(siteConfig, siteConfigCurrentId, config)}
           ELSE DatabaseStorage_setSiteConfig(siteConfig, siteConfigCurrentId, config)
    /\ siteConfigCurrentId' =
           IF DOMAIN siteConfig' = DOMAIN siteConfig
           THEN siteConfigCurrentId ELSE siteConfigCurrentId + 1
    /\ UNCHANGED <<backend, users, competitions, entries, userCurrentId,
                   competitionCurrentId, entryCurrentId, inflight>>
    /\ UNCHANGED <<winnerVars, sessions, ledgerVars>>

\* ------------------------------------------------------ application start
\* process.env: the variables seedAdminUser reads, NULL when not set.
Environments ==
    [ADMIN_USERNAME : {NULL, "root"},
     ADMIN_EMAIL : {NULL, "ops@example.com"},
     ADMIN_PASSWORD_HASH : {NULL, "h1"},
     ADMIN_PASSWORD : {NULL, "pw"}]

DefaultAdminEmail == "admin@bluewhalecompetitions.co.uk"
DefaultAdminPassword == "hash of Admin123!"

adminUsername(env) ==
    IF env.ADMIN_USERNAME # NULL THEN env.ADMIN_USERNAME ELSE "admin"

adminEmail(env) ==
    IF env.ADMIN_EMAIL # NULL THEN env.ADMIN_EMAIL ELSE DefaultAdminEmail

\* scrypt of the password under a fresh random salt, as hash.salt: the
\* values the hashing may give.
hashPassword(password) == {"scrypt of pw.s1", "scrypt of pw.s2"}

\* adminPassword: the pre-hashed password when set, else the hash of the
\* plain one when set, else the default hash.
adminPasswords(env) ==
    IF env.ADMIN_PASSWORD_HASH # NULL THEN {env.ADMIN_PASSWORD_HASH}
    ELSE IF env.ADMIN_PASSWORD # NULL THEN hashPassword(env.ADMIN_PASSWORD)
    ELSE {DefaultAdminPassword}

\* users.username and users.email are unique: the statement that would
\* leave row under id next to another row with its username or its email
\* fails.
uniqueViolation(us, id, row) ==
    \E other \in DOMAIN us \ {id} :
        \/ us[other].username = row.username
        \/ us[other].email = row.email

\* The row seedAdminUser inserts when no user has the admin username.
adminRow(env, password) ==
    [username |-> adminUsername(env), email |-> adminEmail(env),
     password |-> password, isAdmin |-> TRUE]

\* The existing admin after promoteToAdmin (when it was not an admin).
seedAdminUser_promote(us, id) == [us EXCEPT ![id].isAdmin = TRUE]

\* The row of the existing admin with the updates seedAdminUser collects:
\* the email when it differs, the password when ADMIN_PASSWORD is set, or
\* when ADMIN_PASSWORD_HASH is set and differs from the stored one.
seedAdminUser_updates(row, env, password) ==
    [row EXCEPT
        !.email = adminEmail(env),
        !.password =
            IF \/ env.ADMIN_PASSWORD # NULL
               \/ /\ env.ADMIN_PASSWORD_HASH # NULL
                  /\ row.password # env.ADMIN_PASSWORD_HASH
            THEN password ELSE @]

\* Whether the INSERT or the UPDATE of seedAdminUser throws.
seedAdminUser_throws(us, nextId, env, password) ==
    LET found == DatabaseStorage_getUserByUsername(us, adminUsername(env))
    IN  IF found = {}
        THEN uniqueViolation(us, nextId, adminRow(env, password))
        ELSE \E id \in found :
                uniqueViolation(us, id,
                    seedAdminUser_updates(us[id], env, password))

\* The users table seedAdminUser leaves.
seedAdminUser_users(us, nextId, env, password) ==
    LET found == DatabaseStorage_getUserByUsername(us, adminUsername(env))
    IN  IF found = {}
        THEN IF seedAdminUser_throws(us, nextId, env, password) THEN us
             ELSE MapSet(us, nextId, adminRow(env, password))
        ELSE LET id == CHOOSE i \in found : TRUE
                 promoted == seedAdminUser_promote(us, id)
             IN  IF seedAdminUser_throws(us, nextId, env, password)
                 THEN promoted
                 ELSE [promoted EXCEPT ![id] =
                          seedAdminUser_updates(@, env, password)]

\* seedDefaultSiteConfig: stores the empty siteLogo configuration when
\* there is none.
seedDefaultSiteConfig(configs, nextId) ==
    IF DatabaseStorage_getSiteConfig(configs, "siteLogo") # {} THEN configs
    ELSE MapSet(configs, nextId, DefaultSiteConfig[1])

\* DatabaseStorage starts on the database as it is: seedAdminUser with the
\* environment of this start.  When its INSERT or UPDATE throws, the rest
\* (seedDefaultSiteConfig) does not run; the constructor logs the error and
\* the application goes on.
SeedAdminUser(env) ==
    /\ backend = "db"
    /\ \E password \in adminPasswords(env) :
          /\ users' = seedAdminUser_users(users, userCurrentId, env, password)
          /\ siteConfig' =
                 IF seedAdminUser_throws(users, userCurrentId, env, password)
                 THEN siteConfig
                 ELSE seedDefaultSiteConfig(siteConfig, siteConfigCurrentId)
    /\ userCurrentId' = IF DOMAIN users' = DOMAIN users
                        THEN userCurrentId ELSE userCurrentId + 1
    /\ siteConfigCurrentId' = IF DOMAIN siteConfig' = DOMAIN siteConfig
                              THEN siteConfigCurrentId
                              ELSE siteConfigCurrentId + 1
    /\ UNCHANGED <<backend, competitions, entries, competitionCurrentId,
                   entryCurrentId, inflight>>
    /\ UNCHANGED <<winnerVars, sessions, ledgerVars>>

\* ---------------------------------------------------------- specification
Next ==
    \/ \E username \in Usernames : CreateUser(username)
    \/ \E id \in UserIds : DeleteUser(id)
    \/ \E data \in InsertCompetition : CreateCompetition(data)
    \/ \E id \in CompetitionIds, data \in CompetitionPatches :
           UpdateCompetition(id, data)
    \/ \E id \in CompetitionIds : DeleteCompetition(id)
    \/ \E entryData \in InsertEntry : MemCreateEntryBegin(entryData)
    \/ \E call \in inflight : MemCreateEntryFinish(call)
    \/ \E entryData \in InsertEntry : DbCreateEntry(entryData)
    \/ \E id \in EntryIds, status \in PaymentStatuses,
          paymentId \in PaymentIds \cup {NULL} :
           UpdateEntryPaymentStatus(id, status, paymentId)



\* ------------------------------------------------- notions the claims use
\* No createEntry call is suspended at an await.
Quiescent == inflight = {}

TicketCountOf(es) == [e \in DOMAIN es |-> es[e].ticketCount]

\* The entries of competition c that hold tickets: their payment is pending
\* (tickets reserved) or completed (tickets purchased).
HoldingEntries(es, c) ==
    {e \in getEntriesByCompetition(es, c) : es[e].paymentStatus # "failed"}

\* The entries of competition c whose payment completed.
PurchasedEntries(es, c) ==
    {e \in getEntriesByCompetition(es, c) : es[e].paymentStatus = "completed"}

\* Tickets of competition c that are reserved or purchased.
HeldCount(es, c) == SumOver(HoldingEntries(es, c), TicketCountOf(es))

\* Tickets of competition c that are purchased.
PurchasedCount(es, c) == SumOver(PurchasedEntries(es, c), TicketCountOf(es))

\* Tickets user u holds in competition c.
UserHeldCount(es, u, c) ==
    SumOver({e \in HoldingEntries(es, c) : es[e].userId = u}, TicketCountOf(es))

\* The entries a step creates.
NewEntries == DOMAIN entries' \ DOMAIN entries

\* ----------------------------------------------------------------- claims

\* C1: for every competition, in every reachable state,
\* 0 <= ticketsSold <= totalTickets (tickets are never oversold).
C1_TicketsNeverOversold ==
    \A c \in DOMAIN competitions :
        /\ 0 <= competitions[c].ticketsSold
        /\ competitions[c].ticketsSold <= competitions[c].totalTickets

\* C2: two distinct non-failed entries of the same competition never hold a
\* common ticket number.
C2_NoNumberHeldTwice ==
    \A c \in DOMAIN competitions :
        \A e1, e2 \in HoldingEntries(entries, c) :
            e1 # e2 =>
                Range(entries[e1].selectedNumbers)
                    \cap Range(entries[e2].selectedNumbers) = {}

\* C3: for every competition, ticketsSold equals the number of its purchased
\* tickets (tickets of entries whose payment completed); tickets of pending
\* or failed entries are not counted.
C3_TicketsSoldIsPurchasedCount ==
    \A c \in DOMAIN competitions :
        competitions[c].ticketsSold = PurchasedCount(entries, c)

\* C4: of two allocation requests for one live competition that each fit its
\* capacity but together exceed it, at most one succeeds: the two are never
\* both stored holding their tickets.
C4_AtMostOneOversizedRequestSucceeds ==
    \A c \in DOMAIN competitions :
        \A e1, e2 \in HoldingEntries(entries, c) :
            ~(/\ e1 # e2
              /\ competitions[c].isLive
              /\ entries[e1].ticketCount <= competitions[c].totalTickets
              /\ entries[e2].ticketCount <= competitions[c].totalTickets
              /\ entries[e1].ticketCount + entries[e2].ticketCount
                     > competitions[c].totalTickets)

\* C5: completed and failed are terminal: an entry that is completed or
\* failed keeps that payment status in every later state in which it exists.
C5_PaymentStatusTerminal ==
    [][\A e \in DOMAIN entries \cap DOMAIN entries' :
          entries[e].paymentStatus \in {"completed", "failed"}
              => entries'[e].paymentStatus = entries[e].paymentStatus]_vars

C7_TicketsSoldChangesOnlyWithEntries ==
    [][\A c \in DOMAIN competitions \cap DOMAIN competitions' :
          competitions'[c].ticketsSold # competitions[c].ticketsSold
              => entries' # entries]_vars

\* C8: while a competition has isLive = false no step creates an entry for it.
C8_NotLiveForbidsReservation ==
    [][\A c \in DOMAIN competitions :
          ~competitions[c].isLive
              => \A e \in NewEntries : entries'[e].competitionId # c]_vars

\* C9: a step never creates an entry for a live competition whose
\* ticketCount exceeds maxTicketsPerUser minus the tickets its user already
\* holds in the competition (such a request fails with LimitExceeded).
C9_PerUserLimitEnforced ==
    [][\A e \in NewEntries :
          (/\ entries'[e].competitionId \in DOMAIN competitions
           /\ competitions[entries'[e].competitionId].isLive)
              => entries'[e].ticketCount
                   <= competitions[entries'[e].competitionId].maxTicketsPerUser
                      - UserHeldCount(entries, entries'[e].userId,
                                      entries'[e].competitionId)]_vars

\* C10: a step never creates an entry for a live competition whose
\* ticketCount exceeds the available count, totalTickets minus the reserved
\* and purchased tickets (such a request fails with SoldOut and creates no
\* entry).
C10_SoldOutCreatesNoEntry ==
    [][\A e \in NewEntries :
          (/\ entries'[e].competitionId \in DOMAIN competitions
           /\ competitions[entries'[e].competitionId].isLive)
              => entries'[e].ticketCount
                   <= competitions[entries'[e].competitionId].totalTickets
                      - HeldCount(entries, entries'[e].competitionId)]_vars


\* The entries of competition c whose payment a step completes.
NewlyCompleted(c) ==
    {e \in DOMAIN entries \cap DOMAIN entries' :
        /\ entries'[e].competitionId = c
        /\ entries[e].paymentStatus # "completed"
        /\ entries'[e].paymentStatus = "completed"}

\* The entries whose payment a step fails.
NewlyFailed ==
    {e \in DOMAIN entries \cap DOMAIN entries' :
        /\ entries[e].paymentStatus = "pending"
        /\ entries'[e].paymentStatus = "failed"}

\* C12: ticketsSold grows only at payment confirmation and by exactly the
\* number of tickets committed: a step that raises ticketsSold, or that
\* completes entries, raises it by the ticketCount of the entries it
\* completes (so not at reservation time).
C12_TicketsSoldGrowsOnlyAtConfirmation ==
    [][\A c \in DOMAIN competitions \cap DOMAIN competitions' :
          (\/ competitions'[c].ticketsSold > competitions[c].ticketsSold
           \/ NewlyCompleted(c) # {})
          => competitions'[c].ticketsSold - competitions[c].ticketsSold
                 = SumOver(NewlyCompleted(c), TicketCountOf(entries'))]_vars

\* C13: once a step fails the payment of an entry, the tickets the
\* competition counts as taken (ticketsSold, what the available capacity is
\* derived from) are no more than the tickets of its entries that still
\* hold tickets: the failed entry's tickets are given back.
C13_FailedEntryFreesCapacity ==
    [][\A e \in NewlyFailed :
          entries[e].competitionId \in
              DOMAIN competitions \cap DOMAIN competitions'
          => competitions'[entries[e].competitionId].ticketsSold
                 <= HeldCount(entries', entries[e].competitionId)]_vars

\* C16: confirming the payment of an entry whose reservation expired (the
\* sweep marks such an entry failed) does not complete it.
C16_ExpiredEntryNotCompleted ==
    [][\A e \in DOMAIN entries \cap DOMAIN entries' :
          entries[e].paymentStatus = "failed"
              => entries'[e].paymentStatus # "completed"]_vars


(***************************************************************************)
(* The ticket ledger.                                                      *)
(*                                                                         *)
(* shared/schema.ts declares the ticket_statuses table (one row per ticket *)
(* number of a competition: status, entryId, userId, reservedUntil); the   *)
(* operations on it are described by the specification (sections 4.1 to   *)
(* 4.3 and 5) and are modelled from there: the ledger of one competition   *)
(* with MaxLedgerTickets numbers, allocation requests that select numbers  *)
(* and reserve them, the purchase finalizer and the periodic sweep.  Each  *)
(* ledger operation is one atomic unit (section 5); an allocation request  *)
(* reads the available set and reserves in two steps, so that two requests *)
(* can race for the same numbers.                                          *)
(***************************************************************************)

\* ---------------------------------------------------------- ledger bounds
MaxLedgerTickets == 2
MaxLedgerEntries == 3
MaxAllocators == 2
MaxTime == 2

\* The reservation hold window and the retry limit of allocate.
ReservationTtl == 1
MaxAttempts == 2

LedgerNumbers == 1..MaxLedgerTickets
LedgerEntryIds == 1..MaxLedgerEntries
Allocators == 1..MaxAllocators
AllocCounts == {1, 2}

\* A row without holder (entry_id is null) and without expiry (reserved_until
\* is null).
NoHolder == 0
NoExpiry == 0 - 1

AvailableRow ==
    [status |-> "available", holder |-> NoHolder, reservedUntil |-> NoExpiry]

IdleRequest == [pc |-> "idle", count |-> 0, sel |-> {}, attempts |-> 0]

LedgerInit ==
    /\ ledger = [tickets |-> [n \in LedgerNumbers |-> AvailableRow],
                 ticketsSold |-> 0]
    /\ ledgerEntries = <<>>
    /\ alloc = [p \in Allocators |-> IdleRequest]
    /\ now = 0

\* ------------------------------------------------------ ledger operations
Available(L) ==
    {n \in DOMAIN L.tickets : L.tickets[n].status = "available"}

\* getAvailableCount: totalTickets - countStatus(reserved | purchased)
getAvailableCount(L) ==
    Cardinality(DOMAIN L.tickets)
        - Cardinality({n \in DOMAIN L.tickets :
                          L.tickets[n].status \in {"reserved", "purchased"}})

\* reserve: Conflict (nothing changes) if any number is not available;
\* otherwise all numbers become reserved for holder until now + ttl.
reserveConflict(L, numbers) ==
    \E n \in numbers : L.tickets[n].status # "available"

\* A reserve that takes whichever of the numbers are still available.
reserve_partial(L, numbers, holder, until) ==
    [L EXCEPT !.tickets =
        [n \in DOMAIN @ |->
            IF n \in numbers /\ @[n].status = "available"
            THEN [status |-> "reserved", holder |-> holder,
                  reservedUntil |-> until]
            ELSE @[n]]]

reserve(L, numbers, holder, until) ==
    IF reserveConflict(L, numbers) THEN L
    ELSE [L EXCEPT !.tickets =
            [n \in DOMAIN @ |->
                IF n \in numbers
                THEN [status |-> "reserved", holder |-> holder,
                      reservedUntil |-> until]
                ELSE @[n]]]

\* A release that clears holder and expiry and leaves the status.
release_holderOnly(L, numbers) ==
    [L EXCEPT !.tickets =
        [n \in DOMAIN @ |->
            IF n \in numbers /\ @[n].status # "available"
            THEN [@[n] EXCEPT !.holder = NoHolder, !.reservedUntil = NoExpiry]
            ELSE @[n]]]

\* A release that takes the numbers back out of ticketsSold every time.
release_uncounted(L, numbers) ==
    [tickets |->
        [n \in DOMAIN L.tickets |->
            IF n \in numbers THEN AvailableRow ELSE L.tickets[n]],
     ticketsSold |-> L.ticketsSold - Cardinality(numbers)]

\* release: the numbers are available again, holder and expiry cleared; a
\* number that is already available is left as it is.
release(L, numbers) ==
    [L EXCEPT !.tickets =
        [n \in DOMAIN @ |->
            IF n \in numbers /\ @[n].status # "available"
            THEN AvailableRow ELSE @[n]]]

\* commit: InvalidTransition (nothing changes) unless every number is
\* reserved by the expected holder; otherwise reserved -> purchased with
\* the entry attached, and ticketsSold grows by len(numbers).
commitInvalid(L, numbers, entryId) ==
    \E n \in numbers :
        \/ L.tickets[n].status # "reserved"
        \/ L.tickets[n].holder # entryId

commit(L, numbers, entryId) ==
    IF commitInvalid(L, numbers, entryId) THEN L
    ELSE [tickets |->
             [n \in DOMAIN L.tickets |->
                 IF n \in numbers
                 THEN [L.tickets[n] EXCEPT !.status = "purchased",
                                           !.holder = entryId]
                 ELSE L.tickets[n]],
          ticketsSold |-> L.ticketsSold + Cardinality(numbers)]

\* A scan by reservedUntil alone, whatever the status.
staleNumbers_anyStatus(L, t) ==
    {n \in DOMAIN L.tickets :
        /\ L.tickets[n].reservedUntil # NoExpiry
        /\ L.tickets[n].reservedUntil < t}

\* A scan that takes reservedUntil = now as lapsed.
staleNumbers_inclusive(L, t) ==
    {n \in DOMAIN L.tickets :
        /\ L.tickets[n].status = "reserved"
        /\ L.tickets[n].reservedUntil <= t}

\* expireStale(now): releases the numbers with status = reserved and
\* reservedUntil < now.
staleNumbers(L, t) ==
    {n \in DOMAIN L.tickets :
        /\ L.tickets[n].status = "reserved"
        /\ L.tickets[n].reservedUntil < t}

expireStale(L, t) == release(L, staleNumbers(L, t))


\* ------------------------------------------------------ allocation service
ActiveRequests ==
    {p \in Allocators : alloc[p].pc \in {"select", "reserve"}}

\* allocate(count) is called: the request starts with no attempt made.
AllocStart(p, count) ==
    /\ alloc[p].pc = "idle"
    /\ Cardinality(DOMAIN ledgerEntries) + Cardinality(ActiveRequests)
           < MaxLedgerEntries
    /\ alloc' = [alloc EXCEPT ![p] =
                    [pc |-> "select", count |-> count, sel |-> {},
                     attempts |-> 0]]
    /\ UNCHANGED <<ledger, ledgerEntries, now>>
    /\ UNCHANGED vars

\* Validation and selection against the current available set: SoldOut when
\* fewer than count numbers are available, otherwise any count of them.
AllocSelect(p) ==
    /\ alloc[p].pc = "select"
    /\ IF getAvailableCount(ledger) < alloc[p].count
       THEN alloc' = [alloc EXCEPT ![p].pc = "soldout"]
       ELSE \E numbers \in SUBSET Available(ledger) :
               /\ Cardinality(numbers) = alloc[p].count
               /\ alloc' = [alloc EXCEPT ![p].pc = "reserve",
                                         ![p].sel = numbers]
    /\ UNCHANGED <<ledger, ledgerEntries, now>>
    /\ UNCHANGED vars

\* A request that retries after every Conflict.
afterConflict_unbounded(request) ==
    [request EXCEPT !.attempts = @ + 1, !.pc = "select"]

\* What a request does after a Conflict: another attempt, or Exhausted once
\* MaxAttempts attempts were made.
afterConflict(request) ==
    [request EXCEPT !.attempts = @ + 1,
                    !.pc = IF request.attempts + 1 >= MaxAttempts
                           THEN "exhausted" ELSE "select"]

\* Ledger.reserve for the selected numbers; on success the pending Entry is
\* created with them, on Conflict the request retries or gives up.
AllocReserve(p) ==
    /\ alloc[p].pc = "reserve"
    /\ LET entryId == Cardinality(DOMAIN ledgerEntries) + 1 IN
       IF reserveConflict(ledger, alloc[p].sel)
       THEN /\ alloc' = [alloc EXCEPT ![p] = afterConflict(@)]
            /\ ledger' = reserve(ledger, alloc[p].sel, entryId,
                                 now + ReservationTtl)
            /\ UNCHANGED ledgerEntries
       ELSE /\ ledger' = reserve(ledger, alloc[p].sel, entryId,
                                 now + ReservationTtl)
            /\ ledgerEntries' =
                   MapSet(ledgerEntries, entryId,
                          [numbers |-> alloc[p].sel,
                           paymentStatus |-> "pending",
                           reason |-> "none"])
            /\ alloc' = [alloc EXCEPT ![p].pc = "created"]
    /\ UNCHANGED now
    /\ UNCHANGED vars

\* The caller receives the Entry or the error; the request slot is free.
AllocReturn(p) ==
    /\ alloc[p].pc \in {"created", "soldout", "exhausted"}
    /\ alloc' = [alloc EXCEPT ![p] = IdleRequest]
    /\ UNCHANGED <<ledger, ledgerEntries, now>>
    /\ UNCHANGED vars

\* ------------------------------------------------------ purchase finalizer
reservationExpired(L, numbers, t) ==
    \E n \in numbers :
        /\ L.tickets[n].reservedUntil # NoExpiry
        /\ L.tickets[n].reservedUntil < t

\* confirmPayment: a pending entry whose reservation has not expired is
\* committed and completed; Expired, AlreadyFinalized and InvalidTransition
\* change nothing.
confirmRefused(L, es, entryId, t) ==
    \/ es[entryId].paymentStatus # "pending"
    \/ reservationExpired(L, es[entryId].numbers, t)
    \/ commitInvalid(L, es[entryId].numbers, entryId)

ConfirmPayment(entryId) ==
    /\ entryId \in DOMAIN ledgerEntries
    /\ IF confirmRefused(ledger, ledgerEntries, entryId, now)
       THEN UNCHANGED <<ledger, ledgerEntries>>
       ELSE /\ ledger' = commit(ledger, ledgerEntries[entryId].numbers, entryId)
            /\ ledgerEntries' =
                   [ledgerEntries EXCEPT ![entryId].paymentStatus = "completed"]
    /\ UNCHANGED <<alloc, now>>
    /\ UNCHANGED vars

\* failPayment: a pending entry becomes failed and its numbers are released.
FailPayment(entryId) ==
    /\ entryId \in DOMAIN ledgerEntries
    /\ ledgerEntries[entryId].paymentStatus = "pending"
    /\ ledgerEntries' =
           [ledgerEntries EXCEPT ![entryId].paymentStatus = "failed",
                                 ![entryId].reason = "payment_failed"]
    /\ ledger' = release(ledger, ledgerEntries[entryId].numbers)
    /\ UNCHANGED <<alloc, now>>
    /\ UNCHANGED vars

\* The pending entries whose hold lapsed: their numbers are no longer
\* reserved for them in ledger L.
lapsedEntries(L, es) ==
    {e \in DOMAIN es :
        /\ es[e].paymentStatus = "pending"
        /\ commitInvalid(L, es[e].numbers, e)}

\* A sweep that expires the numbers and leaves the entries as they are.
markLapsed_none(L, es) == es

markLapsed(L, es) ==
    [e \in DOMAIN es |->
        IF e \in lapsedEntries(L, es)
        THEN [es[e] EXCEPT !.paymentStatus = "failed",
                           !.reason = "reservation_expired"]
        ELSE es[e]]

\* Background sweep: expireStale(now), then every pending entry whose hold
\* lapsed is marked failed with reason reservation_expired.
Sweep ==
    /\ ledger' = expireStale(ledger, now)
    /\ ledgerEntries' = markLapsed(ledger', ledgerEntries)
    /\ UNCHANGED <<alloc, now>>
    /\ UNCHANGED vars

\* Time passes.  The clock runs to MaxTime, and on while a reservation has
\* not lapsed yet.
Tick ==
    /\ \/ now < MaxTime
       \/ \E n \in LedgerNumbers :
             /\ ledger.tickets[n].status = "reserved"
             /\ ledger.tickets[n].reservedUntil >= now
    /\ now' = now + 1
    /\ UNCHANGED <<ledger, ledgerEntries, alloc>>
    /\ UNCHANGED vars

LedgerNext ==
    \/ \E p \in Allocators, count \in AllocCounts : AllocStart(p, count)
    \/ \E p \in Allocators : AllocSelect(p)
    \/ \E p \in Allocators : AllocReserve(p)
    \/ \E p \in Allocators : AllocReturn(p)
    \/ \E entryId \in LedgerEntryIds : ConfirmPayment(entryId)
    \/ \E entryId \in LedgerEntryIds : FailPayment(entryId)
    \/ Sweep
    \/ Tick

LedgerSpecInit == Init /\ backend = "db" /\ LedgerInit

LedgerSpec == LedgerSpecInit /\ [][LedgerNext]_allVars

\* The clock keeps running and the sweep is periodic: a sweep that has
\* something to expire is not put off for ever.  A request that was started
\* runs on: its handler is never suspended for ever between two steps.
LedgerFairness ==
    /\ WF_allVars(Tick)
    /\ WF_allVars(Sweep)
    /\ \A p \in Allocators :
          WF_allVars(AllocSelect(p)) /\ WF_allVars(AllocReserve(p))

FairLedgerSpec == LedgerSpecInit /\ [][LedgerNext]_allVars /\ LedgerFairness

\* ------------------------------------------------- claims about the ledger
\* The numbers the ledger holds reserved for entry e.
ReservedFor(L, e) ==
    {n \in DOMAIN L.tickets :
        L.tickets[n].status = "reserved" /\ L.tickets[n].holder = e}

\* The step in which request p calls Ledger.reserve.
ReserveStep(p) == alloc[p].pc = "reserve" /\ alloc'[p].pc # "reserve"

\* C11: reserve is all-or-nothing.  When every selected number is
\* available the call makes all of them reserved for the new entry and
\* touches no other number; when at least one is not, the call is a
\* Conflict that leaves the ledger and the entries as they were.  And in
\* every state a pending entry has all of its numbers reserved for it,
\* never a part of them.
C11_ReserveAllOrNothing ==
    [][/\ \A p \in Allocators :
             ReserveStep(p) =>
                 IF alloc[p].sel \subseteq Available(ledger)
                 THEN /\ alloc'[p].pc = "created"
                      /\ \E e \in DOMAIN ledgerEntries' \ DOMAIN ledgerEntries :
                            /\ ledgerEntries'[e].numbers = alloc[p].sel
                            /\ ReservedFor(ledger', e) = alloc[p].sel
                      /\ \A n \in LedgerNumbers \ alloc[p].sel :
                            ledger'.tickets[n] = ledger.tickets[n]
                 ELSE /\ alloc'[p].pc \in {"select", "exhausted"}
                      /\ ledger' = ledger
                      /\ ledgerEntries' = ledgerEntries
       /\ \A e \in DOMAIN ledgerEntries' :
             ledgerEntries'[e].paymentStatus = "pending"
                 => ReservedFor(ledger', e) = ledgerEntries'[e].numbers]_allVars

\* A reserve of two numbers met a Conflict while one of the two was still
\* available.
C11_Witness ==
    \E p \in Allocators :
        /\ alloc[p].pc \in {"select", "exhausted"}
        /\ alloc[p].attempts >= 1
        /\ Cardinality(alloc[p].sel) = 2
        /\ \E n \in alloc[p].sel : ledger.tickets[n].status = "available"
        /\ \E n \in alloc[p].sel : ledger.tickets[n].status = "reserved"

\* C15: a ticket number only ever goes available -> reserved, then
\* reserved -> purchased or reserved -> available.  It never goes from
\* available to purchased, and a purchased number keeps its status.
StatusTransitions ==
    {<<"available", "reserved">>, <<"reserved", "purchased">>,
     <<"reserved", "available">>}

C15_TicketStatusSequence ==
    [][\A n \in LedgerNumbers :
          ledger'.tickets[n].status # ledger.tickets[n].status
              => <<ledger.tickets[n].status, ledger'.tickets[n].status>>
                     \in StatusTransitions]_allVars

\* A number that was reserved, released again, reserved anew and purchased,
\* its reservation time now in the past.
C15_Witness ==
    \E n \in LedgerNumbers, e \in DOMAIN ledgerEntries :
        /\ ledger.tickets[n].status = "purchased"
        /\ ledger.tickets[n].reservedUntil < now
        /\ ledgerEntries[e].paymentStatus = "failed"
        /\ n \in ledgerEntries[e].numbers

\* The numbers whose reservation has lapsed at the current time.
Lapsed ==
    {n \in LedgerNumbers :
        /\ ledger.tickets[n].status = "reserved"
        /\ ledger.tickets[n].reservedUntil < now}

\* C17: once the reservation TTL has elapsed without payment, a sweep
\* makes the numbers available again: getAvailableCount counts them, and
\* the entry that expired holds none of them, so a later allocate may be
\* granted them.
C17_SweepMakesLapsedAvailable ==
    [][Sweep =>
          /\ Lapsed \subseteq Available(ledger')
          /\ getAvailableCount(ledger')
                 = getAvailableCount(ledger) + Cardinality(Lapsed)
          /\ \A e \in DOMAIN ledgerEntries' :
                 ledgerEntries'[e].reason = "reservation_expired"
                     => ReservedFor(ledger', e) = {}]_allVars

\* A number of an entry that expired is held by a later entry.
C17_Witness ==
    \E e1 \in DOMAIN ledgerEntries, e2 \in DOMAIN ledgerEntries :
        /\ e1 < e2
        /\ ledgerEntries[e1].reason = "reservation_expired"
        /\ ledgerEntries[e2].paymentStatus \in {"pending", "completed"}
        /\ \E n \in ledgerEntries[e1].numbers \cap ledgerEntries[e2].numbers :
              ledger.tickets[n].holder = e2

\* C18: release is idempotent.  Releasing numbers a second time gives the
\* ledger the first release gave, and releasing numbers that are already
\* available changes nothing.
C18_ReleaseIdempotent ==
    \A numbers \in SUBSET LedgerNumbers :
        /\ release(release(ledger, numbers), numbers) = release(ledger, numbers)
        /\ numbers \subseteq Available(ledger)
               => release(ledger, numbers) = ledger

\* failPayment released the numbers of an entry; they are available, and
\* another number is purchased.
C18_Witness ==
    \E e \in DOMAIN ledgerEntries :
        /\ ledgerEntries[e].reason = "payment_failed"
        /\ ledgerEntries[e].numbers \subseteq Available(ledger)
        /\ ledger.ticketsSold > 0

C14_PendingEventuallyResolved ==
    \A e \in LedgerEntryIds :
        (e \in DOMAIN ledgerEntries /\ ledgerEntries[e].paymentStatus = "pending")
            ~> (/\ e \in DOMAIN ledgerEntries
                /\ ledgerEntries[e].paymentStatus \in {"completed", "failed"})

\* No entry is pending any more, and the sweep resolved one whose payment
\* was neither confirmed nor failed.
C14_Witness ==
    /\ DOMAIN ledgerEntries = LedgerEntryIds
    /\ \A e \in DOMAIN ledgerEntries :
           ledgerEntries[e].paymentStatus \in {"completed", "failed"}
    /\ \E e \in DOMAIN ledgerEntries :
           ledgerEntries[e].reason = "reservation_expired"

\* C20: allocate always terminates.  A request makes at most MaxAttempts
\* attempts and is Exhausted once it has made them; the step that ends it
\* with Exhausted leaves the ledger and the entries untouched, so nothing
\* stays reserved for it; and a request that is running ends with an
\* entry, SoldOut or Exhausted.
C20_AllocateTerminates ==
    /\ [](\A p \in Allocators :
             /\ alloc[p].attempts <= MaxAttempts
             /\ alloc[p].attempts >= MaxAttempts => alloc[p].pc = "exhausted")
    /\ [][\A p \in Allocators :
             (alloc'[p].pc = "exhausted" /\ alloc[p].pc # "exhausted")
                 => ledger' = ledger /\ ledgerEntries' = ledgerEntries]_allVars
    /\ \A p \in Allocators :
          (alloc[p].pc \in {"select", "reserve"})
              ~> (alloc[p].pc \in {"created", "soldout", "exhausted"})

\* A request gave up after MaxAttempts conflicts, while the numbers it
\* last selected are reserved for entries of other requests.
C20_Witness ==
    \E p \in Allocators :
        /\ alloc[p].pc = "exhausted"
        /\ alloc[p].attempts = MaxAttempts
        /\ \E n \in alloc[p].sel : ledger.tickets[n].status = "reserved"

\* ------------------------------------------- users, entries and winners
SpecInit == Init /\ LedgerInit

\* The entries created next to winners: one ticket, no selected numbers.
WinnerInsertEntry ==
    {entryData \in InsertEntry :
        entryData.ticketCount = 1 /\ entryData.selectedNumbers = <<>>}

\* createCompetition, createEntry, updateEntryPaymentStatus and the
\* operations on users and winners: competitions are created and then
\* written by createEntry alone.
RecordsNext ==
    \/ \E username \in Usernames : CreateUser(username)
    \/ \E id \in UserIds : DeleteUser(id)
    \/ \E data \in InsertCompetition : CreateCompetition(data)
    \/ \E entryData \in WinnerInsertEntry : MemCreateEntryBegin(entryData)
    \/ \E call \in inflight : MemCreateEntryFinish(call)
    \/ \E entryData \in WinnerInsertEntry : DbCreateEntry(entryData)
    \/ \E id \in EntryIds, status \in PaymentStatuses :
           UpdateEntryPaymentStatus(id, status, NULL)
    \/ \E winnerData \in InsertWinner : CreateWinner(winnerData)
    \/ \E id \in 1..MaxWinners, status \in StatusStrings :
           UpdateWinnerClaimStatus(id, status)

RecordsSpec == SpecInit /\ [][RecordsNext]_allVars

\* C22: the selectedNumbers of every stored entry hold no number twice and
\* at most ticketCount numbers.
C22_SelectedNumbersWellFormed ==
    \A e \in DOMAIN entries :
        /\ \A i, j \in DOMAIN entries[e].selectedNumbers :
               entries[e].selectedNumbers[i] = entries[e].selectedNumbers[j]
                   => i = j
        /\ Len(entries[e].selectedNumbers) <= entries[e].ticketCount

\* C23: every winner refers to a stored entry whose payment is completed,
\* and its claimStatus is pending, claimed or expired.
C23_WinnersReferToCompletedEntries ==
    \A w \in DOMAIN winners :
        /\ winners[w].entryId \in DOMAIN entries
        /\ entries[winners[w].entryId].paymentStatus = "completed"
        /\ winners[w].claimStatus \in ClaimStatuses

\* C25: in MemStorage no increment of ticketsSold is lost.  The second
\* half of every createEntry call, whatever ran since its first half,
\* leaves ticketsSold greater by its ticketCount than it found it.
C25_NoIncrementLost ==
    [][\A call \in inflight :
          (MemCreateEntryFinish(call) /\ call.competitionId \in DOMAIN competitions)
              => competitions'[call.competitionId].ticketsSold
                     = competitions[call.competitionId].ticketsSold
                           + call.ticketCount]_vars

\* C26: with no createEntry call under way, ticketsSold of a competition
\* counts no ticket beyond those of the entries stored for it (the half of
\* the equality of ticketsSold and the sum of ticketCount that deleting a
\* user's entries has to keep by giving their tickets back).
C26_TicketsSoldWithinStoredEntries ==
    Quiescent =>
        \A c \in DOMAIN competitions :
            competitions[c].ticketsSold
                <= SumOver(getEntriesByCompetition(entries, c),
                           TicketCountOf(entries))

\* C28: in MemStorage, where deleteCompetition refuses to remove a
\* competition that an entry references, no stored entry references a
\* competition that is not stored.
C28_MemEntriesReferToStoredCompetitions ==
    backend = "mem" =>
        \A e \in DOMAIN entries : entries[e].competitionId \in DOMAIN competitions

\* C21: the two backends are interchangeable.  From any state with no call
\* under way, an operation leaves the same state and returns the same
\* value whichever backend carries it out: deleteCompetition (the
\* competition may have entries), deleteUser, updateEntryPaymentStatus,
\* and getUserByUsername (the name may differ in letter case).
C21_BackendsAgree ==
    Quiescent =>
        /\ \A id \in CompetitionIds :
               MemStorage_deleteCompetition(competitions, entries, id)
                   = DatabaseStorage_deleteCompetition(competitions, entries, id)
        /\ \A id \in UserIds :
               /\ MemStorage_deleteUser_entries(users, entries, id)
                      = DatabaseStorage_deleteUser_entries(users, entries, id)
               /\ MemStorage_deleteUser_winners(users, winners, id)
                      = DatabaseStorage_deleteUser_winners(users, winners, id)
               /\ MemStorage_deleteUser_users(users, id)
                      = DatabaseStorage_deleteUser_users(users, id)
               /\ MemStorage_deleteUser_result(users, id)
                      = DatabaseStorage_deleteUser_result(users, id)
        /\ \A id \in EntryIds, status \in PaymentStatuses,
              paymentId \in PaymentIds \cup {NULL} :
               MemStorage_updateEntryPaymentStatus(entries, id, status, paymentId)
                   = DatabaseStorage_updateEntryPaymentStatus(entries, id, status,
                                                              paymentId)
        /\ \A username \in LookupNames :
               \A id \in DatabaseStorage_getUserByUsername(users, username)
                         \cup MemStorage_getUserByUsername(users, username) :
                   /\ MemStorage_getUserByUsername(users, username) = {id}
                   /\ DatabaseStorage_getUserByUsername(users, username) = {id}

\* The value deleteUser(id) returns.
deleteUser_result(us, id) ==
    IF backend = "mem" THEN MemStorage_deleteUser_result(us, id)
    ELSE DatabaseStorage_deleteUser_result(us, id)

\* C27: deleteUser(id) of an existing user returns true, leaves no user,
\* entry or winner of that id and leaves every other user, entry and winner
\* as it was; of an unknown id it returns false and changes nothing.
C27_DeleteUserFrame ==
    [][\A id \in UserIds :
          DeleteUser(id) =>
              IF id \in DOMAIN users
              THEN /\ deleteUser_result(users, id) = TRUE
                   /\ users' = MapDelete(users, {id})
                   /\ entries' = MapDelete(entries, getEntries(entries, id))
                   /\ winners' = MapDelete(winners, getWinners(winners, id))
              ELSE /\ deleteUser_result(users, id) = FALSE
                   /\ users' = users
                   /\ entries' = entries
                   /\ winners' = winners]_vars

\* ----------------------------------------------------- site configuration
\* setSiteConfig calls, one after another.
ConfigNext == \E config \in InsertSiteConfig : SetSiteConfig(config)

ConfigSpec == SpecInit /\ [][ConfigNext]_allVars

\* The value getSiteConfig(key) returns in the given table: NULL for
\* undefined.
getSiteConfigValues(configs, key) ==
    IF configsWithKey(configs, key) = {} THEN {NULL}
    ELSE {configs[id].value :
            id \in IF backend = "mem" THEN MemStorage_getSiteConfig(configs, key)
                   ELSE DatabaseStorage_getSiteConfig(configs, key)}

\* C30: setSiteConfig is an upsert by key.  After every call there is at
\* most one stored configuration for each key, getSiteConfig of the key
\* that was set returns the value just set and getSiteConfig of every
\* other key returns what it returned before, and a key that was stored
\* already keeps the id of its record.
C30_SetSiteConfigUpsert ==
    [][\A config \in InsertSiteConfig :
          SetSiteConfig(config) =>
              /\ \A key \in ConfigKeys :
                     Cardinality(configsWithKey(siteConfig', key)) <= 1
              /\ getSiteConfigValues(siteConfig', config.key) = {config.value}
              /\ \A key \in ConfigKeys \ {config.key} :
                     getSiteConfigValues(siteConfig', key)
                         = getSiteConfigValues(siteConfig, key)
              /\ configsWithKey(siteConfig, config.key) # {}
                     => configsWithKey(siteConfig', config.key)
                            = configsWithKey(siteConfig, config.key)]_vars

\* DatabaseStorage started with the siteLogo configuration, value "";
\* it has since been set to b under the same id, and a second key has been
\* stored.
C30_Witness ==
    /\ backend = "db"
    /\ DOMAIN siteConfig = {1, 2}
    /\ siteConfig[1].key = "siteLogo"
    /\ siteConfig[1].value = "b"
    /\ siteConfig[2].key = "banner"

\* ------------------------------------------------------ application start
\* The users a database may hold when the application starts: rows with
\* the columns seedAdminUser reads, usernames and emails unique.
AccountRows ==
    [username : {"admin", "root"},
     email : {DefaultAdminEmail, "ops@example.com"},
     password : {DefaultAdminPassword, "h1"},
     isAdmin : BOOLEAN]

PreviousUsers ==
    {us \in UNION {[1..n -> AccountRows] : n \in 0..MaxUsers} :
        \A id \in DOMAIN us : ~uniqueViolation(us, id, us[id])}

StartupInit ==
    /\ backend = "db"
    /\ users \in PreviousUsers
    /\ userCurrentId = Cardinality(DOMAIN users) + 1
    /\ siteConfig \in {<<>>, DefaultSiteConfig}
    /\ siteConfigCurrentId = Cardinality(DOMAIN siteConfig) + 1
    /\ competitions = <<>>
    /\ entries = <<>>
    /\ competitionCurrentId = 1
    /\ entryCurrentId = 1
    /\ inflight = {}
    /\ winners = <<>>
    /\ winnerCurrentId = 1
    /\ sessions = {}
    /\ LedgerInit

\* The application is started again and again, each time with some
\* environment.
StartupNext == \E env \in Environments : SeedAdminUser(env)

StartupSpec == StartupInit /\ [][StartupNext]_allVars

\* C24: after every start the admin account reflects the environment of
\* that start, whatever the database held: some user has the configured
\* username, is an admin, has the configured email and, when
\* ADMIN_PASSWORD_HASH is set, has that hash as its password.
C24_AdminReflectsEnvironment ==
    [][\A env \in Environments :
          SeedAdminUser(env) =>
              \E id \in DOMAIN users' :
                  /\ users'[id].username = adminUsername(env)
                  /\ users'[id].isAdmin
                  /\ users'[id].email = adminEmail(env)
                  /\ env.ADMIN_PASSWORD_HASH # NULL
                         => users'[id].password = env.ADMIN_PASSWORD_HASH]_vars

\* ---------------------------------------------------------- Docker server
\* The Docker server (server-docker.js) works on the users table with SQL:
\* a row of users here carries the column names, username, email, password,
\* is_admin and is_banned.  sessions holds, for each client with a session,
\* the id passport serialized into it.
Clients == {"c1", "c2"}
RegisterNames == {"bob", "eve"}
RegisterEmails == {"bob@example.com", "eve@example.com"}
Passwords == {"pw", "guess"}
Salts == {"s1", "s2"}

\* scrypt, taken as injective on (password, salt).
scrypt(password, salt) == <<password, salt>>

\* The stored password hash.salt, for the salt randomBytes gave.
docker_hashPassword(password, salt) ==
    [hashed |-> scrypt(password, salt), salt |-> salt]

comparePasswords(supplied, stored) ==
    stored.hashed = scrypt(supplied, stored.salt)

\* A property of a JavaScript object: <<value>>, or <<>> (undefined) when
\* the object has no property of that name.
prop(object, name) ==
    IF name \in DOMAIN object THEN <<object[name]>> ELSE <<>>

\* if (value) on a property holding a boolean or undefined.
truthy(value) == value # <<>> /\ value[1]

\* SELECT * FROM users WHERE username = $1: the ids of the rows; a row
\* comes back under its column names.
selectByUsername(us, username) ==
    {id \in DOMAIN us : us[id].username = username}

\* SELECT ..., is_admin as "isAdmin", is_banned as "isBanned" ...: the row
\* under the aliased names.
selectAliased(row) ==
    [username |-> row.username, email |-> row.email,
     isAdmin |-> row.is_admin, isBanned |-> row.is_banned]

\* The LocalStrategy verify callback: the ids of the users it hands to
\* done(null, user); empty when it answers done(null, false).
LocalStrategy_verify(us, username, password) ==
    {id \in selectByUsername(us, username) :
        /\ ~truthy(prop(us[id], "isBanned"))
        /\ comparePasswords(password, us[id].password)}

\* req.login: the client's session now holds the user's id.
login(ss, client, id) ==
    {s \in ss : s.client # client} \cup {[client |-> client, userId |-> id]}

\* req.user: deserializeUser on the id in the client's session.
reqUser(us, ss, client) ==
    {selectAliased(us[s.userId]) :
        s \in {t \in ss : t.client = client /\ t.userId \in DOMAIN us}}

\* The isAdmin middleware.
isAdminRequest(us, ss, client) ==
    \E user \in reqUser(us, ss, client) : truthy(prop(user, "isAdmin"))

DockerFrame ==
    UNCHANGED <<backend, competitions, entries, competitionCurrentId,
                entryCurrentId, inflight, winnerVars, siteConfig,
                siteConfigCurrentId, ledgerVars>>

\* POST /api/register, answered 201.
Register(client, username, email, password) ==
    /\ userCurrentId <= MaxUsers
    /\ selectByUsername(users, username) = {}
    /\ \A id \in DOMAIN users : users[id].email # email
    /\ \E salt \in Salts :
          users' = MapSet(users, userCurrentId,
                      [username |-> username, email |-> email,
                       password |-> docker_hashPassword(password, salt),
                       is_admin |-> FALSE, is_banned |-> FALSE])
    /\ userCurrentId' = userCurrentId + 1
    /\ sessions' = login(sessions, client, userCurrentId)
    /\ DockerFrame

\* POST /api/login, answered 200.
Login(client, username, password) ==
    /\ \E id \in LocalStrategy_verify(users, username, password) :
          sessions' = login(sessions, client, id)
    /\ UNCHANGED <<users, userCurrentId>>
    /\ DockerFrame

\* POST /api/logout.
Logout(client) ==
    /\ sessions' = {s \in sessions : s.client # client}
    /\ UNCHANGED <<users, userCurrentId>>
    /\ DockerFrame

\* PATCH /api/admin/users/:id/ban with body {isBanned}, answered 200.
Ban(client, id, isBanned) ==
    /\ isAdminRequest(users, sessions, client)
    /\ id \in DOMAIN users
    /\ users' = [users EXCEPT ![id].is_banned = isBanned]
    /\ UNCHANGED <<sessions, userCurrentId>>
    /\ DockerFrame

\* The database the Docker server is started on holds the admin account.
DockerInit ==
    /\ backend = "db"
    /\ users = MapSet(<<>>, 1,
                  [username |-> "admin", email |-> DefaultAdminEmail,
                   password |-> docker_hashPassword("pw", "s1"),
                   is_admin |-> TRUE, is_banned |-> FALSE])
    /\ userCurrentId = 2
    /\ sessions = {}
    /\ competitions = <<>>
    /\ entries = <<>>
    /\ competitionCurrentId = 1
    /\ entryCurrentId = 1
    /\ inflight = {}
    /\ winners = <<>>
    /\ winnerCurrentId = 1
    /\ siteConfig = <<>>
    /\ siteConfigCurrentId = 1
    /\ LedgerInit

DockerNext ==
    \/ \E client \in Clients, username \in RegisterNames,
          email \in RegisterEmails, password \in Passwords :
            Register(client, username, email, password)
    \/ \E client \in Clients, username \in RegisterNames \cup {"admin"},
          password \in Passwords :
            Login(client, username, password)
    \/ \E client \in Clients : Logout(client)
    \/ \E client \in Clients, id \in 1..MaxUsers, isBanned \in BOOLEAN :
            Ban(client, id, isBanned)

DockerSpec == DockerInit /\ [][DockerNext]_allVars

\* C29: a POST /api/login for a user who is banned (an admin set is_banned
\* through the ban route and has not unset it) is never answered with a
\* session, even with the correct password.
C29_BannedLoginRejected ==
    [][\A client \in Clients, username \in RegisterNames,
         password \in Passwords :
          Login(client, username, password) =>
              \A id \in selectByUsername(users, username) :
                  ~users[id].is_banned]_vars

\* The storage layer alone: the ledger stays as it starts.
Spec == SpecInit /\ [][Next]_allVars

====
